---- MODULE Spec2Model ----
(***************************************************************************)
(* A model of resolute-transform: the tokenizer and the sliding-window     *)
(* chunker (chunk.go), the document model (document.go), the mergers       *)
(* (merge.go) and the reference round trip (storage.go).                   *)
(*                                                                         *)
(* Go strings are modelled as sequences of one-character strings, Go maps  *)
(* as references into a heap of functions, Go slices as windows onto        *)
(* backing arrays.                                                         *)
(***************************************************************************)
EXTENDS Integers, Sequences, FiniteSets, TLC

VARIABLES
    \* tokenize called on its own
    text, separator, tokOut, tokPc,
    \* ChunkActivity / chunkDocument
    mode,       \* "direct": chunkDocument is the entry; "activity": ChunkActivity is
    pc,         \* position in ChunkActivity / chunkDocument
    input,      \* the call's input, as it was when the call was made
    opts,       \* ChunkActivity's opts / chunkDocument's opts
    di,         \* position of ChunkActivity's range over input.Documents
    chunked,    \* ChunkActivity's chunked
    output,     \* what ChunkActivity returned
    doc,        \* chunkDocument's doc
    tokens, start, chunkIdx, chunks,    \* chunkDocument's locals
    wins,       \* the [start, end) of every window chunkDocument emitted
    heap,       \* the maps that Metadata fields refer to
    mutated,    \* the index of the returned document whose map the caller wrote to
    \* Document.AsChunk
    asDoc, asParentID, asIndex, asOut, asPc,
    \* MergeDocuments / MergeSources / MergeActivity
    arrays,     \* the backing arrays of the slices
    sources,    \* the sources given to the merger
    mergeIn,    \* the backing arrays as they were when the merger was called
    mergeOut,   \* what the merger returned
    mergePc,
    \* MergeRefsActivity
    refs,       \* input.Refs
    ri,         \* position of the range over input.Refs
    allDocs,    \* MergeRefsActivity's allDocs
    calls,      \* the calls made so far: LoadDocuments, the storage, StoreDocuments
    refsOut,    \* what MergeRefsActivity returned
    refsPc

tokVars == <<text, separator, tokOut, tokPc>>

asVars == <<asDoc, asParentID, asIndex, asOut, asPc>>

mergeVars == <<arrays, sources, mergeIn, mergeOut, mergePc>>

refsVars == <<refs, ri, allDocs, calls, refsOut, refsPc>>

chunkVars == <<mode, pc, input, opts, di, chunked, output, doc, tokens, start,
               chunkIdx, chunks, wins, heap, mutated>>

vars == <<tokVars, chunkVars, asVars, mergeVars, refsVars>>

notChunkVars == <<tokVars, asVars, mergeVars, refsVars>>

(***************************************************************************)
(* Bounds of the model.                                                    *)
(***************************************************************************)
MaxLen == 3
MaxTok == 2
MaxDocs == 2
MaxIndex == 11
MaxArray == 3
MaxSources == 3
MaxRefs == 3

(***************************************************************************)
(* Strings.                                                                *)
(***************************************************************************)
Str(n, alphabet) == UNION {[1..k -> alphabet] : k \in 0..n}

\* unicode.IsSpace, restricted to the characters the model uses
Whitespace == {" ", "\n", "\t"}

Max2(a, b) == IF a >= b THEN a ELSE b

RECURSIVE Flatten(_)
Flatten(ss) == IF ss = <<>> THEN <<>> ELSE Head(ss) \o Flatten(Tail(ss))

\* strings.Join(elems, sep)
RECURSIVE Join(_, _)
Join(elems, sep) ==
    IF elems = <<>> THEN <<>>
    ELSE IF Len(elems) = 1 THEN elems[1]
    ELSE elems[1] \o sep \o Join(Tail(elems), sep)

HasAt(s, sep, i) ==
    /\ i + Len(sep) - 1 <= Len(s)
    /\ SubSeq(s, i, i + Len(sep) - 1) = sep

\* the non-empty-separator branch of strings.Split: cut at the leftmost,
\* non-overlapping occurrences of sep
RECURSIVE SplitAt(_, _, _, _)
SplitAt(s, sep, i, from) ==
    IF i + Len(sep) - 1 > Len(s) THEN <<SubSeq(s, from, Len(s))>>
    ELSE IF HasAt(s, sep, i)
         THEN <<SubSeq(s, from, i - 1)>> \o SplitAt(s, sep, i + Len(sep), i + Len(sep))
         ELSE SplitAt(s, sep, i + 1, from)

\* strings.Split(s, sep): an empty sep explodes s into its characters
Split(s, sep) ==
    IF sep = <<>> THEN [i \in 1..Len(s) |-> <<s[i]>>]
    ELSE SplitAt(s, sep, 1, 1)

\* strings.Fields(s): the maximal runs of non-whitespace characters
RECURSIVE FieldsFrom(_, _, _)
FieldsFrom(s, i, word) ==
    IF i > Len(s) THEN (IF word = <<>> THEN <<>> ELSE <<word>>)
    ELSE IF s[i] \in Whitespace
         THEN (IF word = <<>> THEN <<>> ELSE <<word>>) \o FieldsFrom(s, i + 1, <<>>)
         ELSE FieldsFrom(s, i + 1, Append(word, s[i]))

Fields(s) == FieldsFrom(s, 1, <<>>)

\* chunk.go tokenize
tokenize(txt, sep) ==
    LET paragraphs == Split(txt, sep)
    IN  Flatten([p \in 1..Len(paragraphs) |-> Fields(paragraphs[p])])

(***************************************************************************)
(* The tokenizer called on its own.                                        *)
(***************************************************************************)
TokAlphabet == {"a", "b", " ", "\n"}

Separators == {<<>>, <<"\n", "\n">>, <<" ">>, <<"b">>}

TokInit ==
    /\ text \in Str(MaxLen + 1, TokAlphabet)
    /\ separator \in Separators
    /\ tokOut = <<>>
    /\ tokPc = "call"

TokIdle ==
    /\ text = <<>>
    /\ separator = <<>>
    /\ tokOut = <<>>
    /\ tokPc = "idle"

Tokenize ==
    /\ tokPc = "call"
    /\ tokOut' = tokenize(text, separator)
    /\ tokPc' = "return"
    /\ UNCHANGED <<text, separator, chunkVars, asVars, mergeVars, refsVars>>

(***************************************************************************)
(* Documents (document.go) and their metadata maps.                        *)
(***************************************************************************)
Nil == 0

EmptyMap == [k \in {} |-> ""]

MapSet(m, k, v) == [x \in DOMAIN m \cup {k} |-> IF x = k THEN v ELSE m[x]]

Document(id, content, title, source, url, metadata, chunkIndex, parentID, updatedAt) ==
    [ID |-> id, Content |-> content, Title |-> title, Source |-> source, URL |-> url,
     Metadata |-> metadata, ChunkIndex |-> chunkIndex, ParentID |-> parentID,
     UpdatedAt |-> updatedAt]

\* chunk.go ChunkOptions
ChunkOptions(maxTokens, overlap, sep) ==
    [MaxTokens |-> maxTokens, Overlap |-> overlap, Separator |-> sep]

DefaultChunkOptions == ChunkOptions(512, 50, <<"\n", "\n">>)

(***************************************************************************)
(* chunk.go itoa and the pieces of chunkDocument's loop body.              *)
(***************************************************************************)
Digit == <<"0", "1", "2", "3", "4", "5", "6", "7", "8", "9">>

RECURSIVE Digits(_)
Digits(i) == IF i = 0 THEN <<>> ELSE Digits(i \div 10) \o <<Digit[(i % 10) + 1]>>

itoa(i) ==
    IF i = 0 THEN <<"0">>
    ELSE IF i < 0 THEN <<"-">> \o Digits(-i)
    ELSE Digits(i)

\* the ID chunkDocument gives the chunk with index chunkIdx
ChunkID(id, idx) == id \o <<"#">> \o itoa(idx)

\* end := start + opts.MaxTokens; if end > len(tokens) { end = len(tokens) }
WindowEnd(st, o, n) == IF st + o.MaxTokens > n THEN n ELSE st + o.MaxTokens

\* step := opts.MaxTokens - opts.Overlap; if step < 1 { step = 1 }
Step(o) == IF o.MaxTokens - o.Overlap < 1 THEN 1 ELSE o.MaxTokens - o.Overlap

\* tokens[start:end] is in range (Go panics otherwise)
SliceInRange(st, end, n) == 0 <= st /\ st <= end /\ end <= n

\* a mutation of copyMetadata: the chunk shares the parent's map
copyMetadataAlias(h, m) == [heap |-> h, ref |-> m]

\* copyMetadata: nil for nil, otherwise a new map holding the same pairs
\* (given the heap h, the result is the heap after the call and the new reference)
copyMetadata(h, m) ==
    IF m = Nil THEN [heap |-> h, ref |-> Nil]
    ELSE [heap |-> Append(h, h[m]), ref |-> Len(h) + 1]

\* the two early returns of chunkDocument: empty content, or few enough tokens
FitsInOneChunkStrict(d, toks, o) == d.Content = <<>> \/ Len(toks) < o.MaxTokens

FitsInOneChunk(d, toks, o) == d.Content = <<>> \/ Len(toks) <= o.MaxTokens

\* a mutation of the chunk literal: the parent link is copied, not set
NewChunkKeepsParent(d, content, idx, metadata) ==
    Document(d.ID \o <<"#">> \o itoa(idx), content, d.Title, d.Source, d.URL, metadata,
             idx, d.ParentID, d.UpdatedAt)

\* the Document literal of chunkDocument's loop body
NewChunk(d, content, idx, metadata) ==
    Document(ChunkID(d.ID, idx), content, d.Title, d.Source, d.URL, metadata,
             idx, d.ID, d.UpdatedAt)

(***************************************************************************)
(* chunkDocument, one loop iteration per step.                             *)
(***************************************************************************)
ChunkDocumentEnter ==
    /\ pc = "chunkDocument"
    /\ LET toks == IF doc.Content = <<>> THEN <<>>
                   ELSE tokenize(doc.Content, opts.Separator)
       IN  /\ tokens' = toks
           /\ IF FitsInOneChunk(doc, toks, opts)
              THEN /\ chunks' = <<doc>>
                   /\ pc' = "return"
              ELSE /\ chunks' = <<>>
                   /\ pc' = "loop"
    /\ chunkIdx' = 0
    /\ start' = 0
    /\ wins' = <<>>
    /\ UNCHANGED <<notChunkVars, mode, input, opts, di, chunked, output, doc, heap, mutated>>

ChunkDocumentLoop ==
    /\ pc = "loop"
    /\ LET n   == Len(tokens)
           end == WindowEnd(start, opts, n)
           cp  == copyMetadata(heap, doc.Metadata)
       IN  IF ~(start < n)
           THEN /\ pc' = "return"
                /\ UNCHANGED <<chunks, chunkIdx, start, wins, heap>>
           ELSE IF ~SliceInRange(start, end, n)
           THEN /\ pc' = "panic"
                /\ UNCHANGED <<chunks, chunkIdx, start, wins, heap>>
           ELSE /\ chunks' = Append(chunks,
                        NewChunk(doc, Join(SubSeq(tokens, start + 1, end), <<" ">>),
                                 chunkIdx, cp.ref))
                /\ heap' = cp.heap
                /\ chunkIdx' = chunkIdx + 1
                /\ wins' = Append(wins, [start |-> start, end |-> end])
                /\ IF end >= n
                   THEN pc' = "return" /\ start' = start
                   ELSE pc' = "loop" /\ start' = start + Step(opts)
    /\ UNCHANGED <<notChunkVars, mode, input, opts, di, chunked, output, doc, tokens, mutated>>

\* the caller writes to the metadata map of a returned document, as
\* TestCopyMetadata does with the copy
MutateMetadata ==
    /\ mode = "direct"
    /\ pc = "return"
    /\ \E i \in 1..Len(chunks) :
         \E kv \in {<<"new-key", "new-value">>, <<"key1", "changed">>} :
            /\ chunks[i].Metadata # Nil
            /\ heap' = [heap EXCEPT ![chunks[i].Metadata] = MapSet(@, kv[1], kv[2])]
            /\ mutated' = i
    /\ pc' = "mutated"
    /\ UNCHANGED <<notChunkVars, mode, input, opts, di, chunked, output, doc, tokens, start,
                   chunkIdx, chunks, wins>>

(***************************************************************************)
(* ChunkActivity: resolve the options, chunk every document in turn.       *)
(***************************************************************************)
ChunkActivityEnter ==
    /\ pc = "ChunkActivity"
    /\ opts' = IF input.Options.MaxTokens = 0 THEN DefaultChunkOptions ELSE input.Options
    /\ chunked' = <<>>
    /\ di' = 1
    /\ pc' = "range"
    /\ UNCHANGED <<notChunkVars, mode, input, output, doc, tokens, start, chunkIdx, chunks,
                   wins, heap, mutated>>

ChunkActivityRange ==
    /\ pc = "range"
    /\ IF di <= Len(input.Documents)
       THEN /\ doc' = input.Documents[di]
            /\ pc' = "chunkDocument"
            /\ UNCHANGED output
       ELSE /\ output' = [Documents |-> chunked, Count |-> Len(chunked), err |-> "nil"]
            /\ pc' = "done"
            /\ UNCHANGED doc
    /\ UNCHANGED <<notChunkVars, mode, input, opts, di, chunked, tokens, start, chunkIdx,
                   chunks, wins, heap, mutated>>

ChunkActivityAppend ==
    /\ mode = "activity"
    /\ pc = "return"
    /\ chunked' = chunked \o chunks
    /\ di' = di + 1
    /\ pc' = "range"
    /\ UNCHANGED <<notChunkVars, mode, input, opts, output, doc, tokens, start, chunkIdx,
                   chunks, wins, heap, mutated>>

(***************************************************************************)
(* Inputs.                                                                 *)
(***************************************************************************)
Alphabet == {"a", "b", " "}

MaxTokensValues == -1 .. MaxTok

OverlapValues == -1 .. MaxTok + 1

OptionValues ==
    {ChunkOptions(m, o, s) : m \in MaxTokensValues, o \in OverlapValues,
                             s \in {<<>>, <<"\n", "\n">>}}

\* the metadata of an input document: no map, an empty map, a populated map
MetadataValues == {<<>>, <<EmptyMap>>, <<[k \in {"key1"} |-> "value1"]>>}

\* a fresh document, and a document that is itself a chunk of an earlier run
FreshDocument(content, metadata) ==
    Document(<<"p">>, content, "title", "jira", "http://p", metadata, 0, <<>>, 7)

ChunkAsInput(content, metadata) ==
    Document(<<"q", "#", "1">>, content, "", "wiki", "", metadata, 1, <<"q">>, 0)

NoOutput == [Documents |-> <<>>, Count |-> 0, err |-> "none"]

ChunkIdle ==
    /\ mode = "idle" /\ pc = "idle"
    /\ input = [Documents |-> <<>>, Options |-> ChunkOptions(0, 0, <<>>), Heap |-> <<>>]
    /\ opts = ChunkOptions(0, 0, <<>>)
    /\ di = 0 /\ chunked = <<>> /\ output = NoOutput
    /\ doc = FreshDocument(<<>>, Nil)
    /\ tokens = <<>> /\ start = 0 /\ chunkIdx = 0 /\ chunks = <<>> /\ wins = <<>>
    /\ heap = <<>> /\ mutated = 0

\* chunkDocument called directly on one document, as TestChunkDocument does
ChunkDocumentInit ==
    /\ mode = "direct" /\ pc = "chunkDocument"
    /\ \E content \in Str(MaxLen, Alphabet), h \in MetadataValues, o \in OptionValues :
         \E d \in {FreshDocument(content, Len(h)), ChunkAsInput(content, Len(h))} :
            /\ input = [Documents |-> <<d>>, Options |-> o, Heap |-> h]
            /\ doc = d
            /\ opts = o
            /\ heap = h
    /\ di = 1 /\ chunked = <<>> /\ output = NoOutput
    /\ tokens = <<>> /\ start = 0 /\ chunkIdx = 0 /\ chunks = <<>> /\ wins = <<>>
    /\ mutated = 0

ActivityDocuments ==
    {FreshDocument(<<>>, Nil), FreshDocument(<<"a", " ", "b">>, Nil),
     ChunkAsInput(<<"a", "b", " ", "a">>, Nil)}

ChunkActivityInit ==
    /\ mode = "activity" /\ pc = "ChunkActivity"
    /\ \E ds \in Str(MaxDocs, ActivityDocuments), o \in OptionValues :
         /\ input = [Documents |-> ds, Options |-> o, Heap |-> <<>>]
         /\ opts = o
    /\ di = 0 /\ chunked = <<>> /\ output = NoOutput
    /\ doc = FreshDocument(<<>>, Nil)
    /\ tokens = <<>> /\ start = 0 /\ chunkIdx = 0 /\ chunks = <<>> /\ wins = <<>>
    /\ heap = <<>> /\ mutated = 0

(***************************************************************************)
(* Properties of chunkDocument.                                            *)
(***************************************************************************)
Last(s) == s[Len(s)]

EndsWith(s, suffix) ==
    /\ Len(suffix) <= Len(s)
    /\ SubSeq(s, Len(s) - Len(suffix) + 1, Len(s)) = suffix

CeilDiv(a, b) == (a + b - 1) \div b

\* the document chunkDocument was given (a Go value parameter, never assigned
\* to), and its token sequence
Given == doc

GivenTokens == tokenize(Given.Content, opts.Separator)

Returned == pc \in {"return", "mutated"}

Finished == pc \in {"return", "mutated", "panic"}

\* the document went past both early returns
IsSplit == Given.Content # <<>> /\ Len(GivenTokens) > opts.MaxTokens

\* C1: a document of N > maxTokens tokens yields ceil((N - maxTokens) / step) + 1
\* chunks, step = max(1, maxTokens - overlap), and the last chunk's content ends
\* with the last token. Stated for a positive maxTokens.
C1_ChunkCount ==
    (Finished /\ Len(GivenTokens) > opts.MaxTokens /\ opts.MaxTokens >= 1) =>
        /\ Returned
        /\ Len(chunks) = CeilDiv(Len(GivenTokens) - opts.MaxTokens,
                                 Max2(1, opts.MaxTokens - opts.Overlap)) + 1
        /\ EndsWith(Last(chunks).Content, Last(GivenTokens))

\* C2: no token is dropped: every token index lies in some chunk's window and
\* consecutive windows leave no gap. Stated for the calls that return, with a
\* positive maxTokens.
C2_NoTokenDropped ==
    (Returned /\ IsSplit /\ opts.MaxTokens >= 1) =>
        /\ \A t \in 0 .. Len(GivenTokens) - 1 :
              \E w \in 1..Len(wins) : wins[w].start <= t /\ t < wins[w].end
        /\ \A w \in 1 .. Len(wins) - 1 : wins[w + 1].start <= wins[w].end

\* C6: the chunks of a split document carry chunkIndex 0..len-1 in order, the
\* original document's id as parentID, and its title, source, url, updatedAt.
C6_ChunkProvenance ==
    (Returned /\ IsSplit) =>
        \A i \in 1..Len(chunks) :
            /\ chunks[i].ChunkIndex = i - 1
            /\ chunks[i].ParentID = Given.ID
            /\ chunks[i].Title = Given.Title
            /\ chunks[i].Source = Given.Source
            /\ chunks[i].URL = Given.URL
            /\ chunks[i].UpdatedAt = Given.UpdatedAt

C6_Witness ==
    /\ pc = "return" /\ IsSplit /\ Len(chunks) >= 3
    /\ Given.ParentID # <<>>

C8_MetadataIsCopied ==
    (Returned /\ IsSplit) =>
        LET src == Given.Metadata
        IN  /\ src # Nil => heap[src] = input.Heap[src]
            /\ \A i \in 1..Len(chunks) :
                  LET m == chunks[i].Metadata
                  IN  /\ src = Nil => m = Nil
                      /\ src # Nil =>
                            /\ m # Nil /\ m # src
                            /\ \A j \in 1..Len(chunks) : j # i => chunks[j].Metadata # m
                            /\ mutated # i => heap[m] = input.Heap[src]

C8_Witness ==
    /\ pc = "mutated" /\ IsSplit /\ Len(chunks) >= 2
    /\ heap[chunks[mutated].Metadata] # input.Heap[Given.Metadata]

(***************************************************************************)
(* Properties of ChunkActivity.                                            *)
(***************************************************************************)
\* C3: no chunk configuration makes ChunkActivity panic or fail; it returns a
\* nil error, and the window start grows on every loop iteration.
C3_NeverFails ==
    /\ pc # "panic"
    /\ pc = "done" => output.err = "nil" /\ output.Count = Len(output.Documents)
    /\ \A w \in 1 .. Len(wins) - 1 : wins[w + 1].start > wins[w].start

(***************************************************************************)
(* document.go Document.AsChunk.                                           *)
(***************************************************************************)
\* the characters with code points '0' (48) to 'Z' (90)
FromZero ==
    <<"0", "1", "2", "3", "4", "5", "6", "7", "8", "9", ":", ";", "<", "=", ">", "?",
      "@", "A", "B", "C", "D", "E", "F", "G", "H", "I", "J", "K", "L", "M", "N", "O",
      "P", "Q", "R", "S", "T", "U", "V", "W", "X", "Y", "Z">>

\* string(rune('0' + index)): the one character whose code point is '0' + index
RuneString(index) == <<FromZero[index + 1]>>

AsChunk(d, parentID, index) ==
    [d EXCEPT !.ParentID = parentID,
              !.ChunkIndex = index,
              !.ID = parentID \o <<"#">> \o RuneString(index)]

AsChunkInit ==
    /\ asDoc \in {FreshDocument(<<"a">>, Nil), ChunkAsInput(<<"b", " ", "a">>, Nil)}
    /\ asParentID \in {<<>>, <<"p">>, <<"q", "#", "1">>}
    /\ asIndex \in 0..MaxIndex
    /\ asOut = asDoc
    /\ asPc = "call"

AsChunkIdle ==
    /\ asDoc = FreshDocument(<<>>, Nil)
    /\ asParentID = <<>>
    /\ asIndex = 0
    /\ asOut = asDoc
    /\ asPc = "idle"

AsChunkCall ==
    /\ asPc = "call"
    /\ asOut' = AsChunk(asDoc, asParentID, asIndex)
    /\ asPc' = "return"
    /\ UNCHANGED <<asDoc, asParentID, asIndex, tokVars, chunkVars, mergeVars, refsVars>>

(***************************************************************************)
(* merge.go MergeDocuments, MergeSources, MergeActivity.                   *)
(* A slice is [arr, lo, n]: n elements of backing array arr from offset    *)
(* lo; its capacity reaches to the end of the array. arr = Nil: nil slice. *)
(***************************************************************************)
NilSlice == [arr |-> Nil, lo |-> 0, n |-> 0]

ZeroDocument == Document(<<>>, <<>>, "", "", "", Nil, 0, <<>>, 0)

Elements(h, sl) == IF sl.arr = Nil THEN <<>> ELSE SubSeq(h[sl.arr], sl.lo + 1, sl.lo + sl.n)

Cap(h, sl) == IF sl.arr = Nil THEN 0 ELSE Len(h[sl.arr]) - sl.lo

\* make([]Document, 0, total)
MakeSlice(h, total) ==
    [arrays |-> Append(h, [i \in 1..total |-> ZeroDocument]),
     slice |-> [arr |-> Len(h) + 1, lo |-> 0, n |-> 0]]

\* append(dst, elems...): in place when the capacity allows, else in a new array
AppendSlice(h, dst, elems) ==
    IF elems = <<>> THEN [arrays |-> h, slice |-> dst]
    ELSE IF dst.n + Len(elems) <= Cap(h, dst)
    THEN [arrays |-> [h EXCEPT ![dst.arr] =
                        [i \in 1..Len(@) |->
                            IF i > dst.lo + dst.n /\ i <= dst.lo + dst.n + Len(elems)
                            THEN elems[i - dst.lo - dst.n] ELSE @[i]]],
          slice |-> [dst EXCEPT !.n = dst.n + Len(elems)]]
    ELSE [arrays |-> Append(h, Elements(h, dst) \o elems),
          slice |-> [arr |-> Len(h) + 1, lo |-> 0, n |-> dst.n + Len(elems)]]

\* for _, s := range srcs { docs = append(docs, s...) }
RECURSIVE AppendEach(_, _, _)
AppendEach(h, docs, srcs) ==
    IF srcs = <<>> THEN [arrays |-> h, slice |-> docs]
    ELSE LET r == AppendSlice(h, docs, Elements(h, Head(srcs)))
         IN  AppendEach(r.arrays, r.slice, Tail(srcs))

RECURSIVE TotalLen(_)
TotalLen(srcs) == IF srcs = <<>> THEN 0 ELSE Head(srcs).n + TotalLen(Tail(srcs))

\* DocumentBatch.ToDocuments (MergeOutput, ChunkOutput do the same)
ToDocuments(b) == b.Documents

\* a mutation of MergeDocuments: the first source is grown in place
MergeDocumentsOntoFirst(h, srcs) ==
    IF srcs = <<>> THEN [arrays |-> h, slice |-> NilSlice]
    ELSE AppendEach(h, Head(srcs), Tail(srcs))

MergeDocuments(h, srcs) ==
    LET m == MakeSlice(h, TotalLen(srcs))
    IN  AppendEach(m.arrays, m.slice, srcs)

MergeSources(h, srcs) ==
    LET lists == [i \in 1..Len(srcs) |-> ToDocuments(srcs[i])]
        m     == MakeSlice(h, TotalLen(lists))
    IN  AppendEach(m.arrays, m.slice, lists)

MergeActivity(h, in) ==
    LET lists == [i \in 1..Len(in.Sources) |-> ToDocuments(in.Sources[i])]
        r     == AppendEach(h, NilSlice, lists)
    IN  [arrays |-> r.arrays,
         out |-> [Documents |-> r.slice, Count |-> r.slice.n, err |-> "nil"]]

MergeDoc(i) == Document(<<Digit[i + 1]>>, <<"a">>, "", "src", "", Nil, 0, <<>>, i)

\* the windows onto an array of n elements
SlicesOf(len) == {sl \in [arr : {1}, lo : 0..len, n : 0..len] : sl.lo + sl.n <= len}

DocumentBatch(sl) == [Documents |-> sl, Source |-> "src", Cursor |-> ""]

MergeInit ==
    /\ \E n \in 0..MaxArray :
         /\ arrays = <<[i \in 1..n |-> MergeDoc(i)]>>
         /\ \E ss \in Str(MaxSources, SlicesOf(n)) :
               sources = [i \in 1..Len(ss) |-> DocumentBatch(ss[i])]
    /\ mergeIn = arrays
    /\ mergeOut = [Documents |-> NilSlice, Count |-> 0, err |-> "none"]
    /\ mergePc = "call"

MergeIdle ==
    /\ arrays = <<>> /\ sources = <<>> /\ mergeIn = <<>>
    /\ mergeOut = [Documents |-> NilSlice, Count |-> 0, err |-> "none"]
    /\ mergePc = "idle"

MergeDocumentsCall ==
    /\ mergePc = "call"
    /\ LET r == MergeDocuments(arrays, [i \in 1..Len(sources) |-> sources[i].Documents])
       IN  /\ arrays' = r.arrays
           /\ mergeOut' = [Documents |-> r.slice, Count |-> 0, err |-> "none"]
    /\ mergePc' = "MergeDocuments"
    /\ UNCHANGED <<sources, mergeIn, tokVars, chunkVars, asVars, refsVars>>

MergeSourcesCall ==
    /\ mergePc = "call"
    /\ LET r == MergeSources(arrays, sources)
       IN  /\ arrays' = r.arrays
           /\ mergeOut' = [Documents |-> r.slice, Count |-> 0, err |-> "none"]
    /\ mergePc' = "MergeSources"
    /\ UNCHANGED <<sources, mergeIn, tokVars, chunkVars, asVars, refsVars>>

MergeActivityCall ==
    /\ mergePc = "call"
    /\ LET r == MergeActivity(arrays, [Sources |-> sources])
       IN  /\ arrays' = r.arrays
           /\ mergeOut' = r.out
    /\ mergePc' = "MergeActivity"
    /\ UNCHANGED <<sources, mergeIn, tokVars, chunkVars, asVars, refsVars>>

(***************************************************************************)
(* storage.go LoadDocuments, StoreDocuments; merge.go MergeRefsActivity.   *)
(* The storage is an external collaborator: whether core.GetStorage,       *)
(* LoadJSON and StoreJSON succeed is the environment's choice.             *)
(***************************************************************************)
SchemaDocuments == "documents"

DataRef(schema, key, count) == [Schema |-> schema, Key |-> key, Count |-> count]

ZeroDataRef == DataRef("", "", 0)

\* what the storage holds
Stored(key) ==
    IF key = "k1" THEN <<MergeDoc(1), MergeDoc(2)>>
    ELSE IF key = "k2" THEN <<MergeDoc(3)>>
    ELSE <<>>

\* LoadDocuments(ctx, ref) for the i-th reference, the storage behaving as env:
\* the documents, the error, and the storage calls made
LoadDocuments(i, ref, env) ==
    IF ref.Schema # SchemaDocuments
    THEN [docs |-> <<>>, err |-> "schema mismatch", calls |-> <<>>]
    ELSE IF env = "noStorage"
    THEN [docs |-> <<>>, err |-> "get storage",
          calls |-> <<[op |-> "GetStorage", ref |-> i]>>]
    ELSE IF env = "loadFails"
    THEN [docs |-> <<>>, err |-> "load documents",
          calls |-> <<[op |-> "GetStorage", ref |-> i], [op |-> "LoadJSON", ref |-> i]>>]
    ELSE [docs |-> Stored(ref.Key), err |-> "nil",
          calls |-> <<[op |-> "GetStorage", ref |-> i], [op |-> "LoadJSON", ref |-> i]>>]

\* StoreDocuments(ctx, docs), the storage behaving as env
StoreDocuments(docs, env) ==
    IF env = "noStorage"
    THEN [ref |-> ZeroDataRef, err |-> "get storage",
          calls |-> <<[op |-> "GetStorage", ref |-> 0]>>]
    ELSE IF env = "storeFails"
    THEN [ref |-> ZeroDataRef, err |-> "store json",
          calls |-> <<[op |-> "GetStorage", ref |-> 0], [op |-> "StoreJSON", ref |-> 0]>>]
    ELSE [ref |-> DataRef(SchemaDocuments, "merged", Len(docs)), err |-> "nil",
          calls |-> <<[op |-> "GetStorage", ref |-> 0], [op |-> "StoreJSON", ref |-> 0]>>]

\* a mutation of the error check after LoadDocuments: a failed load is skipped
LoadFailedIgnored(r) == FALSE

\* if err != nil after LoadDocuments
LoadFailed(r) == r.err # "nil"

NoRefsOutput == [Ref |-> ZeroDataRef, Count |-> 0, err |-> "none"]

RefValues == {DataRef(sch, k, Len(Stored(k))) :
                 sch \in {SchemaDocuments, "issues"}, k \in {"k0", "k1", "k2"}}

MergeRefsInit ==
    /\ refs \in Str(MaxRefs, RefValues)
    /\ ri = 1
    /\ allDocs = <<>>
    /\ calls = <<>>
    /\ refsOut = NoRefsOutput
    /\ refsPc = "range"

MergeRefsIdle ==
    /\ refs = <<>> /\ ri = 0 /\ allDocs = <<>> /\ calls = <<>>
    /\ refsOut = NoRefsOutput
    /\ refsPc = "idle"

\* one iteration of the range over input.Refs
MergeRefsLoad ==
    /\ refsPc = "range"
    /\ ri <= Len(refs)
    /\ \E env \in {"ok", "noStorage", "loadFails"} :
         LET r == LoadDocuments(ri, refs[ri], env)
         IN  /\ calls' = calls \o <<[op |-> "LoadDocuments", ref |-> ri, err |-> r.err]>>
                               \o r.calls
             /\ IF LoadFailed(r)
                THEN /\ refsOut' = [Ref |-> ZeroDataRef, Count |-> 0, err |-> r.err]
                     /\ refsPc' = "return"
                     /\ UNCHANGED <<allDocs, ri>>
                ELSE /\ allDocs' = allDocs \o r.docs
                     /\ ri' = ri + 1
                     /\ UNCHANGED <<refsOut, refsPc>>
    /\ UNCHANGED <<refs, tokVars, chunkVars, asVars, mergeVars>>

\* after the range: StoreDocuments and the return
MergeRefsStore ==
    /\ refsPc = "range"
    /\ ri > Len(refs)
    /\ \E env \in {"ok", "noStorage", "storeFails"} :
         LET r == StoreDocuments(allDocs, env)
         IN  /\ calls' = calls \o <<[op |-> "StoreDocuments", ref |-> 0, err |-> r.err]>>
                               \o r.calls
             /\ refsOut' = IF r.err # "nil"
                           THEN [Ref |-> ZeroDataRef, Count |-> 0, err |-> r.err]
                           ELSE [Ref |-> r.ref, Count |-> Len(allDocs), err |-> "nil"]
    /\ refsPc' = "return"
    /\ UNCHANGED <<refs, ri, allDocs, tokVars, chunkVars, asVars, mergeVars>>

(***************************************************************************)
(* Specifications.                                                         *)
(***************************************************************************)
TokenizeInit == TokInit /\ ChunkIdle /\ AsChunkIdle /\ MergeIdle /\ MergeRefsIdle

SpecTokenize == TokenizeInit /\ [][Tokenize]_vars

ChunkDocumentNext == ChunkDocumentEnter \/ ChunkDocumentLoop \/ MutateMetadata

DirectInit == TokIdle /\ ChunkDocumentInit /\ AsChunkIdle /\ MergeIdle /\ MergeRefsIdle

SpecChunkDocument == DirectInit /\ [][ChunkDocumentNext]_vars

ChunkActivityNext ==
    \/ ChunkActivityEnter
    \/ ChunkActivityRange
    \/ ChunkDocumentEnter
    \/ ChunkDocumentLoop
    \/ ChunkActivityAppend

ActivityInit == TokIdle /\ ChunkActivityInit /\ AsChunkIdle /\ MergeIdle /\ MergeRefsIdle

SpecChunkActivity == ActivityInit /\ [][ChunkActivityNext]_vars

AsChunkOnlyInit == TokIdle /\ ChunkIdle /\ AsChunkInit /\ MergeIdle /\ MergeRefsIdle

SpecAsChunk == AsChunkOnlyInit /\ [][AsChunkCall]_vars

MergeNext == MergeDocumentsCall \/ MergeSourcesCall \/ MergeActivityCall

MergeOnlyInit == TokIdle /\ ChunkIdle /\ AsChunkIdle /\ MergeInit /\ MergeRefsIdle

SpecMerge == MergeOnlyInit /\ [][MergeNext]_vars

MergeRefsNext == MergeRefsLoad \/ MergeRefsStore

MergeRefsOnlyInit == TokIdle /\ ChunkIdle /\ AsChunkIdle /\ MergeIdle /\ MergeRefsInit

SpecMergeRefs == MergeRefsOnlyInit /\ [][MergeRefsNext]_vars

(***************************************************************************)
(* Properties of tokenize and Document.AsChunk.                            *)
(***************************************************************************)
Occurs(s, sep) == \E i \in 1..Len(s) : HasAt(s, sep, i)

\* the paragraphs as the tokenizer's contract has them: an empty separator, or
\* one that does not occur, leaves the text in one piece
Paragraphs(s, sep) ==
    IF sep = <<>> \/ ~Occurs(s, sep) THEN <<s>> ELSE Split(s, sep)

\* C10: the tokens are the whitespace-delimited words of the paragraphs, in
\* order; with an empty or absent separator, the words of the whole text.
C10_TokensAreWords ==
    tokPc = "return" =>
        LET ps == Paragraphs(text, separator)
        IN  tokOut = Flatten([p \in 1..Len(ps) |-> Fields(ps[p])])

\* C9: AsChunk(parentID, index) gives the ID chunkDocument gives the chunk with
\* that index, parentID + "#" + the index in decimal, and sets ParentID and
\* ChunkIndex.
C9_AsChunkMatchesChunker ==
    asPc = "return" =>
        /\ asOut.ID = ChunkID(asParentID, asIndex)
        /\ asOut.ParentID = asParentID
        /\ asOut.ChunkIndex = asIndex

(***************************************************************************)
(* Properties of the mergers.                                              *)
(***************************************************************************)
MergeReturned == mergePc \in {"MergeDocuments", "MergeSources", "MergeActivity"}

\* the lists the merger was given, as they were when it was called
GivenLists == [i \in 1..Len(sources) |-> Elements(mergeIn, sources[i].Documents)]

RECURSIVE SumLen(_)
SumLen(lists) == IF lists = <<>> THEN 0 ELSE Len(Head(lists)) + SumLen(Tail(lists))

\* C5: the merged sequence is the concatenation of the inputs in argument
\* order, its length the sum of theirs, and the inputs are as they were.
C5_MergeConcatenates ==
    MergeReturned =>
        /\ Elements(arrays, mergeOut.Documents) = Flatten(GivenLists)
        /\ mergeOut.Documents.n = SumLen(GivenLists)
        /\ mergePc = "MergeActivity" =>
              mergeOut.Count = SumLen(GivenLists) /\ mergeOut.err = "nil"
        /\ \A i \in 1..Len(sources) :
              Elements(arrays, sources[i].Documents) = GivenLists[i]
        /\ \A a \in 1..Len(mergeIn) : arrays[a] = mergeIn[a]

\* three sources that overlap and are not in ID order
C5_Witness ==
    /\ mergePc = "MergeDocuments"
    /\ GivenLists = << <<MergeDoc(2), MergeDoc(3)>>, <<MergeDoc(1)>>, <<MergeDoc(2)>> >>
    /\ Len(Elements(arrays, mergeOut.Documents)) = 4

IsLoad(c) == c.op = "LoadDocuments"

IsStore(c) == c.op = "StoreDocuments"

Loads == SelectSeq(calls, IsLoad)

RECURSIVE StoredLen(_)
StoredLen(rs) == IF rs = <<>> THEN 0 ELSE Len(Stored(Head(rs).Key)) + StoredLen(Tail(rs))

\* C4: the references are loaded one after the other in the given order; after
\* a failed load (a schema mismatch fails before the storage is touched) no
\* reference is loaded, StoreDocuments is not called and the load's error is
\* returned; StoreDocuments is called once, after all loads succeeded, and
\* Count is the sum of the loaded lists' lengths.
C4_MergeRefsFailsFast ==
    /\ \A j \in 1..Len(Loads) : Loads[j].ref = j
    /\ \A j \in 1 .. Len(Loads) - 1 : Loads[j].err = "nil"
    /\ \A i \in 1..Len(refs) :
          refs[i].Schema # SchemaDocuments =>
              /\ \A k \in 1..Len(calls) :
                    calls[k].op \in {"GetStorage", "LoadJSON"} => calls[k].ref # i
              /\ i <= Len(Loads) => Loads[i].err = "schema mismatch"
    /\ Len(SelectSeq(calls, IsStore)) <= 1
    /\ \A k \in 1..Len(calls) :
          IsStore(calls[k]) =>
              /\ Len(Loads) = Len(refs)
              /\ \A j \in 1..Len(Loads) : Loads[j].err = "nil"
              /\ \A l \in k + 1 .. Len(calls) : ~IsLoad(calls[l])
    /\ refsPc = "return" =>
          IF Loads # <<>> /\ Last(Loads).err # "nil"
          THEN /\ refsOut.err = Last(Loads).err
               /\ Len(SelectSeq(calls, IsStore)) = 0
          ELSE /\ Len(SelectSeq(calls, IsStore)) = 1
               /\ refsOut.err = "nil" => /\ refsOut.Count = StoredLen(refs)
                                         /\ refsOut.Ref.Count = StoredLen(refs)

\* the second of three references has the wrong schema tag
C4_Witness ==
    /\ refsPc = "return"
    /\ Len(refs) = 3
    /\ refs[1].Key = "k1" /\ refs[3].Schema = SchemaDocuments
    /\ Len(Loads) = 2
    /\ refsOut.err = "schema mismatch"

====
